---- MODULE Spec2Model ----
(***************************************************************************)
(* Model of the engagement gateway of src/server.js: the session registry  *)
(* (activeSessions), the socket.io rooms used for fan-out, the temporal    *)
(* scorer (emotionHistory), the analytics timeline (analyticsData) and the *)
(* frame:send pipeline with its awaited inference call.                    *)
(*                                                                         *)
(* Every socket.on handler is one action.  frame:send is two actions: the  *)
(* part before the await (FrameSend) and the continuation that runs when   *)
(* the inference call settles (FrameOk / FrameFail).  Node runs handlers   *)
(* one at a time, so each action is atomic.                                *)
(*                                                                         *)
(* Numbers: confidences and weights are percentages (0.35 is 35), time is  *)
(* in milliseconds, display names are left out (no handler branches on     *)
(* them).  Scores are kept as exact fractions.                             *)
(***************************************************************************)
EXTENDS Integers, Sequences, FiniteSets, TLC

\* ------------------------------------------------------------------ bounds
\* frame:send calls in one behaviour (one more where two calls must overlap,
\* up to three more where the scorer or a report needs more samples), clock
\* ticks, and topics started in one behaviour.
MaxReqs == 1
MaxTicks == 1
MaxTopics == 2

Sockets == {1, 2}
StudentIds == {"s1", "s2"}
TeacherIds == {"t1", "t2"}
Channels == {"X", "Y"}
\* A field the payload of an event lacks: destructuring yields undefined, which
\* is a Map key and a part of a room name like any other value.
Undefined == "undefined"
ReqIds == 1..(MaxReqs + 3)

\* What the inference service may answer: a label as sent (not normalised),
\* or no label; a confidence, or none.
Missing == "missing"
NoConfidence == -1
Responses == { [emotion |-> "Happy", confidence |-> 90],
               [emotion |-> Missing, confidence |-> NoConfidence] }
NoResponse == [emotion |-> "", confidence |-> NoConfidence]

\* ------------------------------------------------------- program constants
HISTORY_WINDOW_MS == 1500
MIN_FRAMES_FOR_DECISION == 2
CONFIDENCE_THRESHOLD == 35
\* DECAY_FACTOR = 0.85 = 17 / 20
DecayNum == 17
DecayDen == 20
MIN_DOMINANCE == 30
DecayStepMs == 500
\* The clock moves in steps of two decay steps.
TickMs == 2 * DecayStepMs

States == <<"engaged", "bored", "confused", "notPaying">>

\* emotionWeights whose neutral vector leans to notPaying.
WeightsIdleNeutral ==
  [ happy     |-> [engaged |-> 95, bored |-> 0,  confused |-> 0,  notPaying |-> 5],
    neutral   |-> [engaged |-> 20, bored |-> 15, confused |-> 5,  notPaying |-> 60],
    surprised |-> [engaged |-> 85, bored |-> 0,  confused |-> 10, notPaying |-> 5],
    sad       |-> [engaged |-> 10, bored |-> 70, confused |-> 10, notPaying |-> 10],
    angry     |-> [engaged |-> 15, bored |-> 25, confused |-> 50, notPaying |-> 10],
    disgusted |-> [engaged |-> 5,  bored |-> 75, confused |-> 5,  notPaying |-> 15],
    fearful   |-> [engaged |-> 20, bored |-> 5,  confused |-> 60, notPaying |-> 15] ]

emotionWeights ==
  [ happy     |-> [engaged |-> 95, bored |-> 0,  confused |-> 0,  notPaying |-> 5],
    neutral   |-> [engaged |-> 60, bored |-> 15, confused |-> 5,  notPaying |-> 20],
    surprised |-> [engaged |-> 85, bored |-> 0,  confused |-> 10, notPaying |-> 5],
    sad       |-> [engaged |-> 10, bored |-> 70, confused |-> 10, notPaying |-> 10],
    angry     |-> [engaged |-> 15, bored |-> 25, confused |-> 50, notPaying |-> 10],
    disgusted |-> [engaged |-> 5,  bored |-> 75, confused |-> 5,  notPaying |-> 15],
    fearful   |-> [engaged |-> 20, bored |-> 5,  confused |-> 60, notPaying |-> 15] ]

engagementMap ==
  [ engaged |-> "Engaged", bored |-> "Bored", confused |-> "Confused",
    notPaying |-> "Not Paying Attention" ]

\* ------------------------------------------------------------ JS Map model
\* A Map is an insertion-ordered sequence of entries, each with its key in .id.
MapHas(m, k) == \E i \in 1..Len(m) : m[i].id = k
MapIndex(m, k) == CHOOSE i \in 1..Len(m) : m[i].id = k
MapGet(m, k) == m[MapIndex(m, k)]
MapSet(m, k, v) ==
  IF MapHas(m, k) THEN [m EXCEPT ![MapIndex(m, k)] = v] ELSE Append(m, v)
MapDelete(m, k) == SelectSeq(m, LAMBDA e : e.id /= k)
MapKeys(m) == {m[i].id : i \in 1..Len(m)}

SeqMap(F(_), s) == [i \in 1..Len(s) |-> F(s[i])]

\* ---------------------------------------------------------- temporal scorer
RECURSIVE Pow(_, _)
Pow(b, n) == IF n = 0 THEN 1 ELSE b * Pow(b, n - 1)

\* Math.pow(DECAY_FACTOR, frameAge / 500), times DecayDen^MaxDecaySteps so that
\* it is an integer; frame ages are multiples of 500 ms in this model.
MaxDecaySteps == HISTORY_WINDOW_MS \div DecayStepMs
timeDecay(frameAge) ==
  Pow(DecayNum, frameAge \div DecayStepMs)
    * Pow(DecayDen, MaxDecaySteps - frameAge \div DecayStepMs)

\* x || 0.5 on a confidence: 0 and undefined are falsy.
OrHalf(c) == IF c = NoConfidence \/ c = 0 THEN 50 ELSE c

\* (emotion || 'neutral').toLowerCase().trim() on the labels of this model.
Normalize(raw) ==
  CASE raw = Missing -> "neutral"
    [] raw = "Happy" -> "happy"
    [] raw = " SAD " -> "sad"
    [] OTHER -> raw

\* WeightsOf without the fallback: emotionWeights[emotionKey] || {}, whose
\* missing weights count as 0.
WeightsOrNone(emotion) ==
  IF emotion \in DOMAIN emotionWeights THEN emotionWeights[emotion]
  ELSE [engaged |-> 0, bored |-> 0, confused |-> 0, notPaying |-> 0]

\* emotionWeights[emotionKey] || emotionWeights.neutral
WeightsOf(emotion) ==
  IF emotion \in DOMAIN emotionWeights THEN emotionWeights[emotion]
  ELSE emotionWeights.neutral

ZeroScores == [engaged |-> 0, bored |-> 0, confused |-> 0, notPaying |-> 0]

\* addEmotionToHistory that pushes and never purges.
AddNoPurge(history, emotion, confidence, t) ==
  Append(history, [emotion |-> emotion, confidence |-> confidence, timestamp |-> t])

\* history.filter(frame => now - frame.timestamp <= HISTORY_WINDOW_MS) after the push
addEmotionToHistory(history, emotion, confidence, t) ==
  SelectSeq(Append(history, [emotion |-> emotion, confidence |-> confidence,
                             timestamp |-> t]),
            LAMBDA frame : t - frame.timestamp <= HISTORY_WINDOW_MS)

\* [...recentFrames].sort((a, b) => a.timestamp - b.timestamp): a stable sort
RECURSIVE InsertByTimestamp(_, _)
InsertByTimestamp(sorted, frame) ==
  IF sorted = <<>> THEN <<frame>>
  ELSE IF sorted[Len(sorted)].timestamp <= frame.timestamp
       THEN Append(sorted, frame)
       ELSE Append(InsertByTimestamp(SubSeq(sorted, 1, Len(sorted) - 1), frame),
                   sorted[Len(sorted)])

RECURSIVE SortByTimestamp(_)
SortByTimestamp(frames) ==
  IF frames = <<>> THEN <<>>
  ELSE InsertByTimestamp(SortByTimestamp(SubSeq(frames, 1, Len(frames) - 1)),
                         frames[Len(frames)])

frameWeight(frame, t) == OrHalf(frame.confidence) * timeDecay(t - frame.timestamp)

\* The forEach of calculateEngagementFromHistory: the weighted sums per state,
\* the total weight and the total confidence.
RECURSIVE Accumulate(_, _)
Accumulate(frames, t) ==
  IF frames = <<>>
  THEN [scores |-> ZeroScores, totalWeight |-> 0, totalConfidence |-> 0]
  ELSE LET rest == Accumulate(SubSeq(frames, 1, Len(frames) - 1), t)
           frame == frames[Len(frames)]
           w == WeightsOf(frame.emotion)
           fw == frameWeight(frame, t)
       IN [scores |-> [k \in DOMAIN ZeroScores |-> rest.scores[k] + w[k] * fw],
           totalWeight |-> rest.totalWeight + fw,
           totalConfidence |-> rest.totalConfidence + OrHalf(frame.confidence)]

\* Object.keys(scores).reduce((a, b) => scores[a] > scores[b] ? a : b)
RECURSIVE ReduceMax(_, _, _)
ReduceMax(scores, a, i) ==
  IF i > Len(States) THEN a
  ELSE ReduceMax(scores, IF scores[a] > scores[States[i]] THEN a ELSE States[i], i + 1)

MaxOf(scores) ==
  CHOOSE m \in {scores[k] : k \in DOMAIN scores} :
    \A k \in DOMAIN scores : scores[k] <= m

\* InsufficientFrames that lets a single frame decide.
NoFramesOnly(history) == Len(history) = 0

\* history.length < MIN_FRAMES_FOR_DECISION
InsufficientFrames(history) == Len(history) < MIN_FRAMES_FOR_DECISION

\* Reliable that filters on the window alone.
RecentOnly(frame, t) == t - frame.timestamp <= HISTORY_WINDOW_MS

\* The filter of recentFrames: inside the window and confident enough.
Reliable(frame, t) ==
  /\ t - frame.timestamp <= HISTORY_WINDOW_MS
  /\ frame.confidence >= CONFIDENCE_THRESHOLD

\* Dominant with a strict comparison.
StrictlyDominant(maxScore, totalWeight) == maxScore > MIN_DOMINANCE * totalWeight

\* maxScore >= MIN_DOMINANCE on the normalized score maxScore / totalWeight
\* (in percent).
Dominant(maxScore, totalWeight) == maxScore >= MIN_DOMINANCE * totalWeight

\* A decision's scores are the fractions scores[k] / (100 * weight); its
\* confidence is the fraction confidence.num / confidence.den percent.
calculateEngagementFromHistory(history, t) ==
  IF InsufficientFrames(history)
  THEN [engagement |-> "Not Paying Attention", confidence |-> [num |-> 50, den |-> 1],
        dataPoints |-> Len(history), scores |-> ZeroScores, weight |-> 1]
  ELSE LET recentFrames ==
             SelectSeq(history, LAMBDA frame : Reliable(frame, t))
       IN IF Len(recentFrames) = 0
          THEN [engagement |-> "Not Paying Attention",
                confidence |-> [num |-> 40, den |-> 1],
                dataPoints |-> 0, scores |-> ZeroScores, weight |-> 1]
          ELSE LET acc == Accumulate(SortByTimestamp(recentFrames), t)
                   maxScore == MaxOf(acc.scores)
                   engagement ==
                     IF Dominant(maxScore, acc.totalWeight)
                     THEN ReduceMax(acc.scores, States[1], 2)
                     ELSE "notPaying"
               IN [engagement |-> engagementMap[engagement],
                   confidence |-> [num |-> acc.totalConfidence,
                                   den |-> Len(recentFrames)],
                   dataPoints |-> Len(recentFrames),
                   scores |-> acc.scores,
                   weight |-> IF acc.totalWeight > 0 THEN acc.totalWeight ELSE 1]

VARIABLES
  conn,            \* socket -> "open" | "closed"
  rooms,           \* socket -> set of socket.io rooms it is in
  students,        \* activeSessions.students
  teachers,        \* activeSessions.teachers
  emotionHistory,  \* studentId -> sequence of frames (<<>> when absent)
  analyticsData,   \* channel -> sequence of engagement records
  pending,         \* frame:send calls awaiting the inference service
  nextReq,         \* id of the next frame:send
  answers,         \* request id -> replies emitted for it, in order
  now,             \* Date.now()
  topicTracking,   \* channel -> sequence of topics
  sent,            \* socket -> events delivered to it by the last handler
  last             \* the handler that ran last

vars == <<conn, rooms, students, teachers, emotionHistory, analyticsData,
          pending, nextReq, answers, now, topicTracking, sent, last>>
\* ------------------------------------------------------------ rooms, events
ChannelRoom(ch) == <<"channel", ch>>
TeachersRoom(ch) == <<"teachers", ch>>

\* The connections io.to(room) reaches when the rooms are rm.
InRoom(rm, room) == {c \in Sockets : room \in rm[c]}

\* An event as one connection receives it; ch is the channel whose handler
\* or room routed it, ids the roster of a students:list.
Event(ev, id, ch) == [ev |-> ev, id |-> id, ids |-> {}, ch |-> ch]
ListEvent(ids, ch) == [ev |-> "students:list", id |-> "", ids |-> ids, ch |-> ch]

NoOutput == [c \in Sockets |-> <<>>]

\* io.to(room).emit(e) / socket.emit(e): a packet for a connection that is
\* not open is dropped.
Emit(out, targets, cn, e) ==
  [c \in Sockets |-> IF c \in targets /\ cn[c] = "open" THEN Append(out[c], e)
                     ELSE out[c]]
EmitAll(out, target, cn, es) ==
  [c \in Sockets |-> IF c = target /\ cn[c] = "open" THEN out[c] \o es ELSE out[c]]

InChannel(m, ch) == SelectSeq(m, LAMBDA e : e.channelName = ch)

NoFraction == [num |-> 0, den |-> 0]

\* No decision: the handler did not call calculateEngagementFromHistory.
NoResult ==
  [engagement |-> "", confidence |-> NoFraction, dataPoints |-> 0,
   scores |-> ZeroScores, weight |-> 0]

\* No body: the handler was not a GET request.
NoReport == [topics |-> <<>>, overallStats |-> <<>>, overallClassAverage |-> 0]
NoBody == [students |-> <<>>, analytics |-> <<>>, topics |-> <<>>, report |-> NoReport]

\* The handler that ran: its event, connection, the id and channel of its
\* payload, for a frame:send its number, the service's answer and the
\* decision computed from it, and for a GET request the body of res.json.
Step(op, c, id, ch, req, resp) ==
  [op |-> op, sock |-> c, id |-> id, ch |-> ch, req |-> req, resp |-> resp,
   result |-> NoResult, body |-> NoBody]

\* ------------------------------------------------------------------- state
Init ==
  /\ conn = [c \in Sockets |-> "open"]
  /\ rooms = [c \in Sockets |-> {}]
  /\ students = <<>>
  /\ teachers = <<>>
  /\ emotionHistory = [s \in StudentIds \cup {Undefined} |-> <<>>]
  /\ analyticsData = [ch \in Channels \cup {Undefined} |-> <<>>]
  /\ pending = {}
  /\ nextReq = 1
  /\ answers = [r \in ReqIds |-> <<>>]
  /\ now = 0
  /\ topicTracking = [ch \in Channels |-> <<>>]
  /\ sent = NoOutput
  /\ last = Step("init", 0, "", "", 0, NoResponse)

\* Date.now() moves on between handlers.
Tick ==
  /\ now < MaxTicks * TickMs
  /\ now' = now + TickMs
  /\ sent' = NoOutput
  /\ last' = Step("tick", 0, "", "", 0, NoResponse)
  /\ UNCHANGED <<conn, rooms, students, teachers, emotionHistory, analyticsData,
                 pending, nextReq, answers, topicTracking>>

\* The entry student:join stores.
NewStudent(c, s, ch, t) ==
  [id |-> s, socketId |-> c, channelName |-> ch, emotion |-> "null",
   engagement |-> "null", confidence |-> NoFraction, timestamp |-> t,
   dataPoints |-> 0]

\* What student:join emits, given the registry and rooms it has just written.
StudentJoinOutput(c, s, ch, st, te, rm) ==
  LET o1 == Emit(NoOutput, InRoom(rm, ChannelRoom(ch)), conn,
                 Event("student:joined", s, ch))
      existingStudents == SelectSeq(InChannel(st, ch), LAMBDA e : e.id /= s)
      o2 == EmitAll(o1, c, conn,
                    SeqMap(LAMBDA e : Event("student:joined", e.id, ch),
                           existingStudents))
  IN EmitAll(o2, c, conn,
             SeqMap(LAMBDA t : Event("teacher:joined", t.id, ch), InChannel(te, ch)))

\* socket.on('student:join').  socket.join('students') is left out: no handler
\* emits to that room, leaves it or reads it.
StudentJoin(c, s, ch) ==
  /\ conn[c] = "open"
  /\ students' = MapSet(students, s, NewStudent(c, s, ch, now))
  /\ rooms' = [rooms EXCEPT ![c] = @ \cup {ChannelRoom(ch)}]
  /\ sent' = StudentJoinOutput(c, s, ch, students', teachers, rooms')
  /\ last' = Step("student:join", c, s, ch, 0, NoResponse)
  /\ UNCHANGED <<conn, teachers, emotionHistory, analyticsData, pending,
                 nextReq, answers, now, topicTracking>>

\* TeacherJoinOutput replaying the roster as student:joined events, one per
\* student, in place of the students:list batch.
TeacherJoinOutputReplay(c, t, ch, st, rm) ==
  LET joined == Event("teacher:joined", t, ch)
      o1 == Emit(NoOutput, InRoom(rm, ChannelRoom(ch)), conn, joined)
      studentsInChannel == InChannel(st, ch)
      o2 == EmitAll(o1, c, conn,
                    SeqMap(LAMBDA e : Event("student:joined", e.id, ch),
                           studentsInChannel))
  IN [d \in Sockets |->
        IF conn[d] = "open"
        THEN o2[d] \o SeqMap(LAMBDA e : joined,
                             SelectSeq(studentsInChannel, LAMBDA e : e.socketId = d))
        ELSE o2[d]]

\* What teacher:join emits, given the registry and rooms it has just written.
TeacherJoinOutput(c, t, ch, st, rm) ==
  LET joined == Event("teacher:joined", t, ch)
      o1 == Emit(NoOutput, InRoom(rm, ChannelRoom(ch)), conn, joined)
      studentsInChannel == InChannel(st, ch)
      o2 == Emit(o1, {c}, conn, ListEvent(MapKeys(studentsInChannel), ch))
  IN [d \in Sockets |->
        IF conn[d] = "open"
        THEN o2[d] \o SeqMap(LAMBDA e : joined,
                             SelectSeq(studentsInChannel, LAMBDA e : e.socketId = d))
        ELSE o2[d]]

\* socket.on('teacher:join')
TeacherJoin(c, t, ch) ==
  /\ conn[c] = "open"
  /\ teachers' = MapSet(teachers, t, [id |-> t, socketId |-> c, channelName |-> ch])
  /\ rooms' = [rooms EXCEPT ![c] = @ \cup {ChannelRoom(ch), TeachersRoom(ch)}]
  /\ sent' = TeacherJoinOutput(c, t, ch, students, rooms')
  /\ last' = Step("teacher:join", c, t, ch, 0, NoResponse)
  /\ UNCHANGED <<conn, students, emotionHistory, analyticsData, pending,
                 nextReq, answers, now, topicTracking>>
\* socket.on('student:leave')
StudentLeave(c, s, ch) ==
  /\ conn[c] = "open"
  /\ students' = MapDelete(students, s)
  /\ emotionHistory' = [emotionHistory EXCEPT ![s] = <<>>]
  /\ rooms' = [rooms EXCEPT ![c] = @ \ {ChannelRoom(ch)}]
  /\ sent' = Emit(NoOutput, InRoom(rooms', TeachersRoom(ch)), conn,
                  Event("student:left", s, ch))
  /\ last' = Step("student:leave", c, s, ch, 0, NoResponse)
  /\ UNCHANGED <<conn, teachers, analyticsData, pending, nextReq, answers, now,
                 topicTracking>>

\* socket.on('teacher:leave')
TeacherLeave(c, t, ch) ==
  /\ conn[c] = "open"
  /\ teachers' = MapDelete(teachers, t)
  /\ rooms' = [rooms EXCEPT ![c] = @ \ {ChannelRoom(ch), TeachersRoom(ch)}]
  /\ sent' = NoOutput
  /\ last' = Step("teacher:leave", c, t, ch, 0, NoResponse)
  /\ UNCHANGED <<conn, students, emotionHistory, analyticsData, pending,
                 nextReq, answers, now, topicTracking>>

\* What the disconnect handler emits: student:left for each entry of the closed
\* connection, in Map order, to the teachers' room of the entry's channel.
DisconnectOutput(c, st, rm, cn) ==
  [d \in Sockets |->
     IF cn[d] = "open"
     THEN SeqMap(LAMBDA e : Event("student:left", e.id, e.channelName),
                 SelectSeq(st, LAMBDA e : /\ e.socketId = c
                                          /\ TeachersRoom(e.channelName) \in rm[d]))
     ELSE <<>>]

\* SweepStudents that drops every entry of the registry.
SweepAll(st, c) == <<>>

\* The registry after the disconnect handler's sweep of the students.
SweepStudents(st, c) == SelectSeq(st, LAMBDA e : e.socketId /= c)

\* socket.on('disconnect'); socket.io has taken the socket out of its rooms.
Disconnect(c) ==
  /\ conn[c] = "open"
  /\ conn' = [conn EXCEPT ![c] = "closed"]
  /\ rooms' = [rooms EXCEPT ![c] = {}]
  /\ students' = SweepStudents(students, c)
  /\ emotionHistory' =
       [s \in DOMAIN emotionHistory |->
          IF MapHas(students, s) /\ MapGet(students, s).socketId = c THEN <<>>
          ELSE emotionHistory[s]]
  /\ teachers' = SelectSeq(teachers, LAMBDA e : e.socketId /= c)
  /\ sent' = DisconnectOutput(c, students, rooms', conn')
  /\ last' = Step("disconnect", c, "", "", 0, NoResponse)
  /\ UNCHANGED <<analyticsData, pending, nextReq, answers, now, topicTracking>>

\* student ? student.name : `Student ${studentId}`, read before the await: the
\* name of the session entry, or the fallback made from the id.
StudentNameOf(st, s) == IF MapHas(st, s) THEN "session" ELSE "fallback"

\* socket.on('frame:send') up to the await: the request is in flight.
FrameSend(c, s, ch) ==
  /\ conn[c] = "open"
  /\ nextReq \in ReqIds
  /\ pending' = pending \cup {[id |-> nextReq, sock |-> c, sid |-> s, ch |-> ch,
                               studentName |-> StudentNameOf(students, s)]}
  /\ nextReq' = nextReq + 1
  /\ sent' = NoOutput
  /\ last' = Step("frame:send", c, s, ch, nextReq, NoResponse)
  /\ UNCHANGED <<conn, rooms, students, teachers, emotionHistory, analyticsData,
                 answers, now, topicTracking>>

\* socket.on('frame:send') with no frame, or with no payload at all:
\* frame.length, or the destructuring, throws inside the try block before the
\* call.
FrameSendNoFrame(c) ==
  /\ conn[c] = "open"
  /\ nextReq \in ReqIds
  /\ nextReq' = nextReq + 1
  /\ answers' = [answers EXCEPT ![nextReq] = Append(@, "emotion:error")]
  /\ sent' = Emit(NoOutput, {c}, conn, Event("emotion:error", "", ""))
  /\ last' = Step("frame:noframe", c, "", "", nextReq, NoResponse)
  /\ UNCHANGED <<conn, rooms, students, teachers, emotionHistory, analyticsData,
                 pending, now, topicTracking>>

\* RecordEngagement without the has() guard: an absent entry is written anew.
RecordEngagementUpsert(st, s, emotion, result, dataPoints, t) ==
  MapSet(st, s, [id |-> s, socketId |-> 0, channelName |-> "", emotion |-> emotion,
                 engagement |-> result.engagement, confidence |-> result.confidence,
                 timestamp |-> t, dataPoints |-> dataPoints])

\* if (activeSessions.students.has(studentId)) { ...update... }
RecordEngagement(st, s, emotion, result, dataPoints, t) ==
  IF MapHas(st, s)
  THEN MapSet(st, s, [MapGet(st, s) EXCEPT
                        !.emotion = emotion,
                        !.engagement = result.engagement,
                        !.confidence = result.confidence,
                        !.timestamp = t,
                        !.dataPoints = dataPoints])
  ELSE st

\* The record frame:send pushes on the channel's timeline.
EngagementRecord(s, studentName, emotion, result, dataPoints, t) ==
  [timestamp |-> t, studentId |-> s, studentName |-> studentName, emotion |-> emotion,
   engagement |-> result.engagement, confidence |-> result.confidence,
   dataPoints |-> dataPoints]

\* PushRecord that puts the record first (unshift).
UnshiftRecord(timeline, record) == <<record>> \o timeline

\* analyticsData.get(channelName).push(record)
PushRecord(timeline, record) == Append(timeline, record)

\* The continuation of frame:send when the inference service answered
\* {emotion, confidence} (either may be absent).
FrameOk(r, response) ==
  LET normalizedEmotion == Normalize(response.emotion)
      history == addEmotionToHistory(emotionHistory[r.sid], normalizedEmotion,
                                     OrHalf(response.confidence), now)
      dataPoints == Len(history)
      result == calculateEngagementFromHistory(history, now)
      o1 == Emit(NoOutput, {r.sock}, conn, Event("emotion:result", r.sid, r.ch))
  IN /\ r \in pending
     /\ pending' = pending \ {r}
     /\ emotionHistory' = [emotionHistory EXCEPT ![r.sid] = history]
     /\ students' = RecordEngagement(students, r.sid, normalizedEmotion, result,
                                     dataPoints, now)
     /\ analyticsData' = [analyticsData EXCEPT ![r.ch] =
          PushRecord(@, EngagementRecord(r.sid, r.studentName, normalizedEmotion,
                                         result, dataPoints, now))]
     /\ answers' = [answers EXCEPT ![r.id] = Append(@, "emotion:result")]
     /\ sent' = Emit(o1, InRoom(rooms, TeachersRoom(r.ch)), conn,
                     Event("emotion:update", r.sid, r.ch))
     /\ last' = [Step("frame:ok", r.sock, r.sid, r.ch, r.id, response)
                    EXCEPT !.result = result]
     /\ UNCHANGED <<conn, rooms, teachers, nextReq, now, topicTracking>>

\* FailureOutput that also tells the channel's teachers of the error.
FailureOutputToTeachers(r) ==
  Emit(NoOutput, {r.sock} \cup InRoom(rooms, TeachersRoom(r.ch)), conn,
       Event("emotion:error", r.sid, r.ch))

\* FailureReplies of a catch block that only logs.
NoReplies(r) == <<>>

\* What the catch block of frame:send emits.
FailureOutput(r) == Emit(NoOutput, {r.sock}, conn, Event("emotion:error", r.sid, r.ch))
FailureReplies(r) == <<"emotion:error">>

\* The continuation of frame:send when the call rejects (timeout, service
\* unreachable, error status) or the response has no body to destructure.
FrameFail(r) ==
  /\ r \in pending
  /\ pending' = pending \ {r}
  /\ answers' = [answers EXCEPT ![r.id] = @ \o FailureReplies(r)]
  /\ sent' = FailureOutput(r)
  /\ last' = Step("frame:fail", r.sock, r.sid, r.ch, r.id, NoResponse)
  /\ UNCHANGED <<conn, rooms, students, teachers, emotionHistory, analyticsData,
                 nextReq, now, topicTracking>>

\* Date.now() moves on by step, up to limit.
Advance(step, limit) ==
  /\ now + step <= limit
  /\ now' = now + step
  /\ sent' = NoOutput
  /\ last' = Step("tick", 0, "", "", 0, NoResponse)
  /\ UNCHANGED <<conn, rooms, students, teachers, emotionHistory, analyticsData,
                 pending, nextReq, answers, topicTracking>>

\* The handlers that destructure their payload outside any try block.
Unguarded == {"student:join", "teacher:join", "student:leave", "teacher:leave"}

\* An event of Unguarded sent without a payload (or with null):
\* `const { ... } = data` throws a TypeError in a listener that socket.io
\* calls without a catch, and Node ends the process on an uncaught exception;
\* every connection and all the in-memory state go with it.  (frame:send
\* destructures inside its try block: see FrameSendNoFrame.)
NoPayload(c, op) ==
  /\ conn[c] = "open"
  /\ op \in Unguarded
  /\ conn' = [d \in Sockets |-> "closed"]
  /\ rooms' = [d \in Sockets |-> {}]
  /\ students' = <<>>
  /\ teachers' = <<>>
  /\ emotionHistory' = [s \in DOMAIN emotionHistory |-> <<>>]
  /\ analyticsData' = [ch \in DOMAIN analyticsData |-> <<>>]
  /\ topicTracking' = [ch \in DOMAIN topicTracking |-> <<>>]
  /\ pending' = {}
  /\ sent' = NoOutput
  /\ last' = Step("exit", c, "", "", 0, NoResponse)
  /\ UNCHANGED <<nextReq, answers, now>>

\* ------------------------------------------------------------- REST: topics
\* endTime: null
NoTime == -1
TopicNames == {"A", "B"}

\* The topic POST /api/topics/:channelName stores.
NewTopic(topicName, t) == [topicName |-> topicName, startTime |-> t, endTime |-> NoTime]

\* app.post('/api/topics/:channelName')
StartTopic(ch, topicName) ==
  /\ topicTracking' = [topicTracking EXCEPT ![ch] = Append(@, NewTopic(topicName, now))]
  /\ sent' = NoOutput
  /\ last' = Step("topic:start", 0, topicName, ch, 0, NoResponse)
  /\ UNCHANGED <<conn, rooms, students, teachers, emotionHistory, analyticsData,
                 pending, nextReq, answers, now>>

\* !lastTopic.endTime: an end time is a Date.now(), which is never 0, so only
\* null is falsy.
IsOpen(topic) == topic.endTime = NoTime

\* The topics after PUT /api/topics/:channelName/end at time t.
EndLast(topics, t) ==
  IF Len(topics) > 0 /\ IsOpen(topics[Len(topics)])
  THEN [topics EXCEPT ![Len(topics)].endTime = t]
  ELSE topics

\* app.put('/api/topics/:channelName/end')
EndTopic(ch) ==
  /\ topicTracking' = [topicTracking EXCEPT ![ch] = EndLast(@, now)]
  /\ sent' = NoOutput
  /\ last' = Step("topic:end", 0, "", ch, 0, NoResponse)
  /\ UNCHANGED <<conn, rooms, students, teachers, emotionHistory, analyticsData,
                 pending, nextReq, answers, now>>

\* ------------------------------------------------------------ REST: queries
\* map.get(channelName) || []: an unknown channel reads as an empty array.
GetOrEmpty(map, ch) == IF ch \in DOMAIN map THEN map[ch] ELSE <<>>

EngagementStates == {"Engaged", "Bored", "Confused", "Not Paying Attention"}

\* [...new Set(analytics.map(a => a.studentId))]: the ids in the order of
\* their first record.
RECURSIVE uniqueStudents(_)
uniqueStudents(analytics) ==
  IF analytics = <<>> THEN <<>>
  ELSE LET rest == uniqueStudents(SubSeq(analytics, 1, Len(analytics) - 1))
           studentId == analytics[Len(analytics)].studentId
       IN IF \E i \in 1..Len(rest) : rest[i] = studentId THEN rest
          ELSE Append(rest, studentId)

\* studentNames[studentId]: the name on the student's first record.
studentNames(analytics, studentId) ==
  LET first == CHOOSE i \in 1..Len(analytics) :
                 /\ analytics[i].studentId = studentId
                 /\ \A j \in 1..(i - 1) : analytics[j].studentId # studentId
  IN analytics[first].studentName

\* InRange with an exclusive end.
InRangeBeforeEnd(a, topic) ==
  /\ a.timestamp >= topic.startTime
  /\ (topic.endTime = NoTime \/ a.timestamp < topic.endTime)

\* a.timestamp >= topic.startTime && (!topic.endTime || a.timestamp <= topic.endTime)
InRange(a, topic) ==
  /\ a.timestamp >= topic.startTime
  /\ (IsOpen(topic) \/ a.timestamp <= topic.endTime)

topicAnalytics(analytics, topic) == SelectSeq(analytics, LAMBDA a : InRange(a, topic))

\* The forEach that counts the records of each engagement state.
engagementCounts(data) ==
  [e \in EngagementStates |->
     Cardinality({i \in 1..Len(data) : data[i].engagement = e})]

\* RoundTenths that truncates (Math.floor).
FloorTenths(count, total) == (1000 * count) \div total

\* Math.round((count / total) * 1000) / 10, in tenths of a percent: the
\* nearest tenth, a half going up.
RoundTenths(count, total) == (2000 * count + total) \div (2 * total)

\* totalDataPoints > 0 ? Math.round(...) / 10 : 0
Percentage(count, total) == IF total > 0 THEN RoundTenths(count, total) ELSE 0

RECURSIVE SumOfPercentages(_)
SumOfPercentages(stats) ==
  IF stats = <<>> THEN 0
  ELSE SumOfPercentages(SubSeq(stats, 1, Len(stats) - 1))
         + stats[Len(stats)].engagementPercentage

\* Math.round((stats.reduce(sum + s.engagementPercentage, 0) / stats.length) * 10) / 10,
\* in tenths of a percent.
AverageEngagement(stats) ==
  IF Len(stats) > 0
  THEN (2 * SumOfPercentages(stats) + Len(stats)) \div (2 * Len(stats))
  ELSE 0

\* One entry of a topic's studentStats, from the records of the topic's range.
StudentStat(analytics, range, studentId) ==
  LET studentData == SelectSeq(range, LAMBDA a : a.studentId = studentId)
      studentEngagementCounts == engagementCounts(studentData)
      totalDataPoints == Len(studentData)
  IN [studentId |-> studentId,
      studentName |-> studentNames(analytics, studentId),
      totalDataPoints |-> totalDataPoints,
      engagementCounts |-> studentEngagementCounts,
      engagementPercentage |->
        Percentage(studentEngagementCounts["Engaged"], totalDataPoints),
      boredPercentage |->
        Percentage(studentEngagementCounts["Bored"], totalDataPoints),
      confusedPercentage |->
        Percentage(studentEngagementCounts["Confused"], totalDataPoints),
      notPayingAttentionPercentage |->
        Percentage(studentEngagementCounts["Not Paying Attention"], totalDataPoints)]

\* uniqueStudents.map(studentId => ...): an entry for every student of the
\* channel's timeline.
studentStats(analytics, range) ==
  SeqMap(LAMBDA studentId : StudentStat(analytics, range, studentId),
         uniqueStudents(analytics))

\* One entry of the report's topics.
TopicStat(analytics, topic) ==
  LET range == topicAnalytics(analytics, topic)
      stats == studentStats(analytics, range)
  IN [topicName |-> topic.topicName,
      startTime |-> topic.startTime,
      endTime |-> topic.endTime,
      duration |-> IF IsOpen(topic) THEN NoTime ELSE topic.endTime - topic.startTime,
      engagementCounts |-> engagementCounts(range),
      totalDataPoints |-> Len(range),
      studentStats |-> stats,
      classAverageEngagement |-> AverageEngagement(stats)]

\* One entry of the report's overallStats.
OverallStat(analytics, studentId) ==
  LET studentData == SelectSeq(analytics, LAMBDA a : a.studentId = studentId)
      totalDataPoints == Len(studentData)
  IN [studentId |-> studentId,
      studentName |-> studentNames(analytics, studentId),
      totalDataPoints |-> totalDataPoints,
      engagementPercentage |->
        Percentage(engagementCounts(studentData)["Engaged"], totalDataPoints)]

overallStats(analytics) ==
  SeqMap(LAMBDA studentId : OverallStat(analytics, studentId),
         uniqueStudents(analytics))

\* The statistics of the body of GET /api/report/:channelName.
Report(analytics, topics) ==
  [topics |-> SeqMap(LAMBDA topic : TopicStat(analytics, topic), topics),
   overallStats |-> overallStats(analytics),
   overallClassAverage |-> AverageEngagement(overallStats(analytics))]

\* A GET request: it answers body and writes nothing.
Query(op, ch, body) ==
  /\ sent' = NoOutput
  /\ last' = [Step(op, 0, "", ch, 0, NoResponse) EXCEPT !.body = body]
  /\ UNCHANGED <<conn, rooms, students, teachers, emotionHistory, analyticsData,
                 pending, nextReq, answers, now, topicTracking>>

\* app.get('/api/students/:channelName')
GetStudents(ch) ==
  Query("students", ch,
        [NoBody EXCEPT !.students =
           SeqMap(LAMBDA student : [id |-> student.id, emotion |-> student.emotion,
                                    confidence |-> student.confidence,
                                    timestamp |-> student.timestamp],
                  InChannel(students, ch))])

\* GetAnalytics that hands the timeline over and empties it.
GetAnalyticsAndClear(ch) ==
  /\ sent' = NoOutput
  /\ last' = [Step("analytics", 0, "", ch, 0, NoResponse)
                EXCEPT !.body = [NoBody EXCEPT !.analytics =
                                   IF ch \in DOMAIN analyticsData
                                   THEN analyticsData[ch] ELSE <<>>]]
  /\ analyticsData' = [c \in DOMAIN analyticsData |->
                         IF c = ch THEN <<>> ELSE analyticsData[c]]
  /\ UNCHANGED <<conn, rooms, students, teachers, emotionHistory, pending,
                 nextReq, answers, now, topicTracking>>

\* app.get('/api/analytics/:channelName')
GetAnalytics(ch) ==
  Query("analytics", ch, [NoBody EXCEPT !.analytics = GetOrEmpty(analyticsData, ch)])

\* app.get('/api/topics/:channelName')
GetTopics(ch) ==
  Query("topics", ch, [NoBody EXCEPT !.topics = GetOrEmpty(topicTracking, ch)])

\* app.get('/api/report/:channelName'): the statistics and the raw timeline.
GetReport(ch) ==
  LET analytics == GetOrEmpty(analyticsData, ch)
      topics == GetOrEmpty(topicTracking, ch)
  IN Query("report", ch,
           [NoBody EXCEPT !.analytics = analytics,
                          !.report = Report(analytics, topics)])

\* ---------------------------------------------------------- specifications
\* The presence handlers, for events naming students SS, teachers TT and
\* channels CH, sent on any connection.
Presence(SS, TT, CH) ==
  \/ \E c \in Sockets, s \in SS, ch \in CH : StudentJoin(c, s, ch)
  \/ \E c \in Sockets, t \in TT, ch \in CH : TeacherJoin(c, t, ch)
  \/ \E c \in Sockets, s \in SS, ch \in CH : StudentLeave(c, s, ch)
  \/ \E c \in Sockets, t \in TT, ch \in CH : TeacherLeave(c, t, ch)
  \/ \E c \in Sockets : Disconnect(c)

\* The frame:send pipeline, for at most n calls.
Frames(SS, CH, n) ==
  \/ \E c \in Sockets, s \in SS, ch \in CH : nextReq <= n /\ FrameSend(c, s, ch)
  \/ \E c \in Sockets : nextReq <= n /\ FrameSendNoFrame(c)
  \/ \E r \in pending, response \in Responses : FrameOk(r, response)
  \/ \E r \in pending : FrameFail(r)

\* One student, one teacher, one channel, two connections: every handler.
Next == Presence({"s1"}, {"t1"}, {"X"}) \/ Frames({"s1"}, {"X"}, MaxReqs) \/ Tick
Spec == Init /\ [][Next]_vars

\* Two students and two teachers in one channel: presence only.
PresenceNext == Presence(StudentIds, TeacherIds, {"X"})
PresenceSpec == Init /\ [][PresenceNext]_vars

\* Two students and one teacher over two channels: presence only.
ChannelNext == Presence(StudentIds, {"t1"}, Channels)
ChannelSpec == Init /\ [][ChannelNext]_vars

\* Two students and one teacher in one channel, with frames that are answered.
RosterNext ==
  \/ Presence(StudentIds, {"t1"}, {"X"})
  \/ \E c \in Sockets, s \in StudentIds : nextReq <= MaxReqs /\ FrameSend(c, s, "X")
  \/ \E r \in pending : FrameOk(r, [emotion |-> "Happy", confidence |-> 90])
RosterSpec == Init /\ [][RosterNext]_vars

\* One student on two connections and calls that overlap: the frame pipeline.
FrameNext ==
  \/ \E c \in Sockets : StudentJoin(c, "s1", "X")
  \/ \E c \in Sockets : Disconnect(c)
  \/ Frames({"s1"}, {"X"}, MaxReqs + 1)
FrameSpec == Init /\ [][FrameNext]_vars

\* The sliding window: one student whose samples arrive over two seconds,
\* confident, unconfident or without label and confidence.
WindowResponses ==
  Responses \cup {[emotion |-> " SAD ", confidence |-> 20]}
WindowNext ==
  \/ StudentJoin(1, "s1", "X")
  \/ nextReq <= MaxReqs + 2 /\ pending = {} /\ FrameSend(1, "s1", "X")
  \/ \E r \in pending, response \in WindowResponses : FrameOk(r, response)
  \/ Advance(DecayStepMs, HISTORY_WINDOW_MS + DecayStepMs)
WindowSpec == Init /\ [][WindowNext]_vars

\* The decision: one student whose samples mix labels so that the largest
\* score falls on, above and below the dominance threshold and two states tie.
DecisionResponses ==
  { [emotion |-> "sleepy", confidence |-> 60],
    [emotion |-> "disgusted", confidence |-> 44],
    [emotion |-> "disgusted", confidence |-> 55],
    [emotion |-> "fearful", confidence |-> 70],
    [emotion |-> "fearful", confidence |-> 20] }
DecisionNext ==
  \/ nextReq <= MaxReqs + 2 /\ pending = {} /\ FrameSend(1, "s1", "X")
  \/ \E r \in pending, response \in DecisionResponses : FrameOk(r, response)
  \/ Advance(DecayStepMs, DecayStepMs)
DecisionSpec == Init /\ [][DecisionNext]_vars

\* The topics started in all channels together.
TopicCount == Len(topicTracking["X"]) + Len(topicTracking["Y"])

\* The topic endpoints on two channels, while the clock moves.
TopicNext ==
  \/ \E ch \in Channels, topicName \in TopicNames :
       TopicCount < MaxTopics /\ StartTopic(ch, topicName)
  \/ \E ch \in Channels : EndTopic(ch)
  \/ \E ch \in Channels : GetReport(ch)
  \/ Advance(DecayStepMs, HISTORY_WINDOW_MS)
TopicSpec == Init /\ [][TopicNext]_vars

\* The timelines of two channels under the requests that reach them or the
\* state they are made from: one student who joins, leaves and disconnects,
\* samples naming either channel, a topic and reports.
TimelineNext ==
  \/ StudentJoin(1, "s1", "X")
  \/ StudentLeave(1, "s1", "X")
  \/ Disconnect(1)
  \/ \E ch \in Channels : nextReq <= MaxReqs + 1 /\ FrameSend(1, "s1", ch)
  \/ \E r \in pending : FrameOk(r, [emotion |-> "Happy", confidence |-> 90])
  \/ \E r \in pending : FrameFail(r)
  \/ Advance(TickMs, TickMs)
  \/ TopicCount < 1 /\ StartTopic("X", "A")
  \/ EndTopic("X")
  \/ GetReport("X")
TimelineSpec == Init /\ [][TimelineNext]_vars

\* The GET requests, for a channel with a student, a sample and a topic and
\* for a channel the server has never heard of.
QueryNext ==
  \/ StudentJoin(1, "s1", "X")
  \/ nextReq <= MaxReqs /\ FrameSend(1, "s1", "X")
  \/ \E r \in pending : FrameOk(r, [emotion |-> "Happy", confidence |-> 90])
  \/ TopicCount < 1 /\ StartTopic("X", "A")
  \/ \E ch \in {"X", "Z"} : GetStudents(ch)
  \/ \E ch \in {"X", "Z"} : GetAnalytics(ch)
  \/ \E ch \in {"X", "Z"} : GetTopics(ch)
  \/ \E ch \in {"X", "Z"} : GetReport(ch)
QuerySpec == Init /\ [][QueryNext]_vars

\* The report: two students whose samples reach one channel while the clock
\* moves and a topic is started and ended.  The first student's samples read
\* happy, the second's disgusted; a request arrives once the sample in flight
\* is answered.
ReportResponse(studentId) ==
  IF studentId = "s1" THEN [emotion |-> "Happy", confidence |-> 90]
  ELSE [emotion |-> "disgusted", confidence |-> 90]
ReportNext ==
  \/ \E s \in StudentIds :
       nextReq <= MaxReqs + 3 /\ pending = {} /\ FrameSend(1, s, "X")
  \/ \E r \in pending : FrameOk(r, ReportResponse(r.sid))
  \/ pending = {} /\ Advance(DecayStepMs, HISTORY_WINDOW_MS)
  \/ pending = {} /\ TopicCount < 1 /\ StartTopic("X", "A")
  \/ pending = {} /\ EndTopic("X")
  \/ pending = {} /\ GetReport("X")
ReportSpec == Init /\ [][ReportNext]_vars

\* Events that lack a field, among well-formed ones, on one connection.
WithUndefined(ids) == ids \cup {Undefined}
ValidationNext ==
  \/ \E s \in WithUndefined({"s1"}), ch \in WithUndefined({"X"}) : StudentJoin(1, s, ch)
  \/ \E t \in WithUndefined({"t1"}) : TeacherJoin(1, t, "X")
  \/ TeacherJoin(1, "t1", Undefined)
  \/ \E s \in WithUndefined({"s1"}) : StudentLeave(1, s, "X")
  \/ nextReq <= MaxReqs /\ FrameSend(1, Undefined, "X")
  \/ nextReq <= MaxReqs /\ FrameSend(1, "s1", Undefined)
  \/ \E r \in pending : FrameOk(r, [emotion |-> "Happy", confidence |-> 90])
ValidationSpec == Init /\ [][ValidationNext]_vars

\* Events that lack a field or the whole payload, sent on one connection
\* while a student and a teacher are registered on the other.
FaultNext ==
  \/ StudentJoin(2, "s2", "X")
  \/ TeacherJoin(2, "t2", "X")
  \/ \E s \in WithUndefined({"s1"}) : StudentJoin(1, s, "X")
  \/ StudentLeave(1, Undefined, "X")
  \/ StudentLeave(1, "s2", Undefined)
  \/ nextReq <= MaxReqs /\ FrameSend(1, Undefined, "X")
  \/ nextReq <= MaxReqs /\ FrameSendNoFrame(1)
  \/ \E r \in pending : FrameOk(r, [emotion |-> "Happy", confidence |-> 90])
  \/ \E op \in Unguarded : NoPayload(1, op)
FaultSpec == Init /\ [][FaultNext]_vars

\* Re-joining: identities register on connection 1 and may register again on
\* connection 2 while their entry names connection 1; either connection may
\* close, and samples give the students a history.
RegisteredOn(m, id, c) == MapHas(m, id) /\ MapGet(m, id).socketId = c
RejoinNext ==
  \/ \E s \in StudentIds : StudentJoin(1, s, "X")
  \/ \E s \in StudentIds : RegisteredOn(students, s, 1) /\ StudentJoin(2, s, "X")
  \/ TeacherJoin(1, "t1", "X")
  \/ RegisteredOn(teachers, "t1", 1) /\ TeacherJoin(2, "t1", "X")
  \/ TeacherJoin(2, "t2", "X")
  \/ \E c \in Sockets : Disconnect(c)
  \/ \E c \in Sockets : nextReq <= MaxReqs /\ FrameSend(c, "s1", "X")
  \/ \E r \in pending : FrameOk(r, [emotion |-> "Happy", confidence |-> 90])
RejoinSpec == Init /\ [][RejoinNext]_vars

\* Every label of the weight table: one student whose samples carry any of
\* the seven labels, confidently, or one of the mixes of DecisionResponses.
LabelResponses ==
  {[emotion |-> e, confidence |-> 90] : e \in DOMAIN emotionWeights}
    \cup DecisionResponses
LabelNext ==
  \/ nextReq <= MaxReqs + 2 /\ pending = {} /\ FrameSend(1, "s1", "X")
  \/ \E r \in pending, response \in LabelResponses : FrameOk(r, response)
  \/ pending = {} /\ Advance(DecayStepMs, DecayStepMs)
LabelSpec == Init /\ [][LabelNext]_vars

\* The same where every call in flight settles: axios rejects after its 10 s
\* timeout at the latest.
Settle(id) ==
  \E r \in pending :
    r.id = id /\ (FrameFail(r) \/ \E response \in Responses : FrameOk(r, response))
FairSpec == FrameSpec /\ \A id \in ReqIds : WF_vars(Settle(id))
\* ------------------------------------------------------------------ claims
Registered(m, c, ch) ==
  \E i \in 1..Len(m) : m[i].socketId = c /\ m[i].channelName = ch
Roster(ch) ==
  {<<"student", e>> : e \in MapKeys(InChannel(students, ch))}
    \cup {<<"teacher", e>> : e \in MapKeys(InChannel(teachers, ch))}
Kinds(out) == {out[i].ev : i \in 1..Len(out)}
FrameDone == last.op \in {"frame:ok", "frame:fail"}

\* C1: after a disconnect no student entry names the closed connection, and a
\* frame:send that was in flight completes normally (it replies emotion:result,
\* nothing throws) without adding an entry to activeSessions.students.
RosterClean ==
  \A i \in 1..Len(students) :
    students[i].socketId \in Sockets /\ conn[students[i].socketId] = "open"
C1_DisconnectCleanup ==
  [][ /\ RosterClean'
      /\ FrameDone' => MapKeys(students') = MapKeys(students)
      /\ last'.op = "frame:ok" => answers'[last'.req] = <<"emotion:result">> ]_vars

\* A frame of a student who was registered when it was sent is scored after
\* the sending connection closed and the student's entry is gone.
C1_Witness ==
  /\ last.op = "frame:ok"
  /\ conn[last.sock] = "closed"
  /\ ~MapHas(students, last.id)
  /\ analyticsData[last.ch] # <<>>
  /\ analyticsData[last.ch][Len(analyticsData[last.ch])].studentName = "session"

\* What a failed frame:send may do: reply emotion:error to the sender (lost if
\* the sender is gone), once, and nothing else.
OnlyError ==
  /\ students' = students /\ teachers' = teachers /\ rooms' = rooms
  /\ analyticsData' = analyticsData /\ emotionHistory' = emotionHistory
  /\ answers'[last'.req] = <<"emotion:error">>
  /\ \A d \in Sockets : d # last'.sock => sent'[d] = <<>>
  /\ Kinds(sent'[last'.sock]) \subseteq {"emotion:error"}
  /\ Len(sent'[last'.sock]) = IF conn[last'.sock] = "open" THEN 1 ELSE 0
  /\ nextReq' = nextReq
  /\ \A r \in pending' : r.id # last'.req

Incomplete(resp) == resp.emotion = Missing \/ resp.confidence = NoConfidence

C3_EveryFrameAnswered ==
  \A id \in ReqIds :
    /\ [](Len(answers[id]) <= 1)
    /\ (nextReq > id) ~> (Len(answers[id]) = 1)

\* Every call of the run was made, one was answered with a result and one,
\* whose inference call failed, with an error.
C3_Witness ==
  /\ last.op = "frame:fail"
  /\ nextReq > MaxReqs + 1
  /\ pending = {}
  /\ \E a, b \in ReqIds :
       answers[a] = <<"emotion:result">> /\ answers[b] = <<"emotion:error">>

\* C4 as claimed: student:join for an id registered under another connection
\* replaces the handle and keeps the entry's emotion, engagement, confidence.
C4_ReconnectPreserves ==
  [][ ( /\ last'.op = "student:join"
        /\ MapHas(students, last'.id)
        /\ MapGet(students, last'.id).socketId # last'.sock )
      => /\ MapGet(students', last'.id).socketId = last'.sock
         /\ MapGet(students', last'.id).emotion = MapGet(students, last'.id).emotion
         /\ MapGet(students', last'.id).engagement
              = MapGet(students, last'.id).engagement
         /\ MapGet(students', last'.id).confidence
              = MapGet(students, last'.id).confidence ]_vars

\* C5 as claimed: a connection is the handle of at most one registered
\* identity, and an identity has at most one entry.
HandlesOf(c) ==
  {<<"student", students[i].id>> : i \in {j \in 1..Len(students) : students[j].socketId = c}}
    \cup
  {<<"teacher", teachers[i].id>> : i \in {j \in 1..Len(teachers) : teachers[j].socketId = c}}
C5_RegistryInvariant ==
  /\ \A c \in Sockets : Cardinality(HandlesOf(c)) <= 1
  /\ Cardinality(MapKeys(students)) = Len(students)
  /\ Cardinality(MapKeys(teachers)) = Len(teachers)

\* C6 as claimed: a presence or engagement event of channel X reaches only
\* connections with a participant registered in X, and emotion:update only
\* connections of a teacher registered in X.
ScopedEvents ==
  {"student:joined", "teacher:joined", "student:left", "students:list",
   "emotion:result", "emotion:update"}
C6_ChannelScoping ==
  \A d \in Sockets : \A i \in 1..Len(sent[d]) :
    LET e == sent[d][i]
    IN /\ e.ev \in ScopedEvents =>
            Registered(students, d, e.ch) \/ Registered(teachers, d, e.ch)
       /\ e.ev = "emotion:update" => Registered(teachers, d, e.ch)

Count(out, ev) == Cardinality({i \in 1..Len(out) : out[i].ev = ev})

RosterListed ==
  /\ last.op = "teacher:join" =>
       LET out == sent[last.sock]
       IN /\ Len(out) >= 2
          /\ out[1] = Event("teacher:joined", last.id, last.ch)
          /\ out[2] = ListEvent(MapKeys(InChannel(students, last.ch)), last.ch)
          /\ Count(out, "students:list") = 1
          /\ Kinds(out) \cap {"student:joined", "emotion:update"} = {}
  /\ \A d \in Sockets : \A i \in 1..Len(sent[d]) :
       sent[d][i].ev = "emotion:update" =>
         last.op = "frame:ok" /\ TeachersRoom(sent[d][i].ch) \in rooms[d]
Told(out) ==
  {<<"student", out[i].id>> : i \in {j \in 1..Len(out) : out[j].ev = "student:joined"}}
    \cup {<<"teacher", out[i].id>> :
            i \in {j \in 1..Len(out) : out[j].ev = "teacher:joined"}}
    \cup UNION {{<<"student", s>> : s \in out[i].ids} : i \in 1..Len(out)}
C8_StateSync ==
  last.op \in {"student:join", "teacher:join"} =>
    Told(sent[last.sock]) = Roster(last.ch)

\* C9 as claimed: when a participant leaves the registry, every connection of
\* a teacher registered in the participant's channel is sent a left event
\* for it.
Left(out, id) ==
  \E i \in 1..Len(out) : out[i].ev \in {"student:left", "teacher:left"} /\ out[i].id = id
Notified(m, id) ==
  \A i \in 1..Len(teachers') :
    (teachers'[i].channelName = MapGet(m, id).channelName
       /\ conn'[teachers'[i].socketId] = "open")
    => Left(sent'[teachers'[i].socketId], id)
C9_LeaveNotification ==
  [][ /\ \A s \in MapKeys(students) \ MapKeys(students') : Notified(students, s)
      /\ \A t \in MapKeys(teachers) \ MapKeys(teachers') : Notified(teachers, t) ]_vars

\* C10 as claimed: a frame of a student is scored only when no earlier frame
\* of that student is still in flight.
C10_SequentialPerStudent ==
  last.op = "frame:ok" =>
    \A r \in pending : r.sid = last.id => r.id > last.req

\* C11 as claimed: a student's history is empty once the student is removed
\* by student:leave or by disconnect, and a frame:send of that student that
\* was awaiting inference when the student was removed leaves it empty.
C11_HistoryLifecycle ==
  [][ /\ \A s \in MapKeys(students) \ MapKeys(students') : emotionHistory'[s] = <<>>
      /\ \A r \in pending \ pending' :
           ( /\ last'.op = "frame:ok"
             /\ r.studentName = "session"
             /\ ~MapHas(students, r.sid)
             /\ emotionHistory[r.sid] = <<>> )
           => emotionHistory'[r.sid] = <<>> ]_vars

InWindow(frame, t) == t - frame.timestamp <= HISTORY_WINDOW_MS
InTimeOrder(h) == \A i, j \in 1..Len(h) : i < j => h[i].timestamp <= h[j].timestamp
CountIf(h, P(_)) == Cardinality({i \in 1..Len(h) : P(h[i])})

\* C12: the history a frame:send leaves, which is the one its decision reads,
\* holds the earlier samples that are at most 1500 ms old followed by the new
\* sample, nothing older, in time order; the read finds every confident
\* sample of it inside the window.
C12_SlidingWindow ==
  [][ last'.op = "frame:ok" =>
        LET before == emotionHistory[last'.id]
            after == emotionHistory'[last'.id]
        IN /\ \A i \in 1..Len(after) : InWindow(after[i], now')
           /\ Len(after) = 1 + CountIf(before, LAMBDA f : InWindow(f, now'))
           /\ after[Len(after)].timestamp = now'
           /\ \A i \in 1..(Len(after) - 1) :
                \E j \in 1..Len(before) : before[j] = after[i]
           /\ InTimeOrder(after)
           /\ Len(after) >= MIN_FRAMES_FOR_DECISION =>
                last'.result.dataPoints
                  = CountIf(after, LAMBDA f : f.confidence >= CONFIDENCE_THRESHOLD)
     ]_vars

\* A sample arrives when an earlier one is exactly 1500 ms old and another is
\* older: the first is kept, the second purged.
C12_Witness ==
  /\ last.op = "frame:ok"
  /\ Len(analyticsData[last.ch]) = 3
  /\ analyticsData[last.ch][1].timestamp < now - HISTORY_WINDOW_MS
  /\ Len(emotionHistory[last.id]) = 2
  /\ emotionHistory[last.id][1].timestamp = now - HISTORY_WINDOW_MS

\* The decision of the last frame:send as the student's entry and the
\* channel's timeline hold it.
Stored(engagement, confidence) ==
  /\ MapHas(students, last.id) =>
       /\ MapGet(students, last.id).engagement = engagement
       /\ MapGet(students, last.id).confidence = confidence
  /\ LET timeline == analyticsData[last.ch]
     IN /\ timeline # <<>>
        /\ timeline[Len(timeline)].engagement = engagement
        /\ timeline[Len(timeline)].confidence = confidence

\* C13: a frame:send that leaves fewer than 2 samples in the history decides
\* 'Not Paying Attention' with confidence 0.5 and four zero scores, whatever
\* the label and the confidence of the sample.
C13_InsufficientEvidence ==
  (last.op = "frame:ok" /\ Len(emotionHistory[last.id]) < 2) =>
    /\ last.result.engagement = "Not Paying Attention"
    /\ last.result.confidence = [num |-> 50, den |-> 1]
    /\ last.result.scores = ZeroScores
    /\ Stored("Not Paying Attention", [num |-> 50, den |-> 1])

\* A confident 'Happy' sample arrives alone, the student's earlier samples
\* having left the window, and is answered with the default.
C13_Witness ==
  /\ last.op = "frame:ok"
  /\ last.resp = [emotion |-> "Happy", confidence |-> 90]
  /\ Len(analyticsData[last.ch]) >= 2
  /\ Len(emotionHistory[last.id]) = 1
  /\ MapHas(students, last.id)
  /\ MapGet(students, last.id).engagement = "Not Paying Attention"

Confident(h) == SelectSeq(h, LAMBDA f : f.confidence >= CONFIDENCE_THRESHOLD)

\* C14: a frame:send that leaves at least 2 samples, none of confidence 0.35
\* or more, decides 'Not Paying Attention' with confidence 0.4 (not the 0.5
\* of too few samples) and four zero scores; with a confident sample among
\* them, the scores, the weight, the confidence and the count of the decision
\* are those of the confident samples alone.
C14_UnreliableEvidence ==
  (last.op = "frame:ok" /\ Len(emotionHistory[last.id]) >= 2) =>
    LET good == Confident(emotionHistory[last.id])
        acc == Accumulate(good, now)
    IN IF good = <<>>
       THEN /\ last.result.engagement = "Not Paying Attention"
            /\ last.result.confidence = [num |-> 40, den |-> 1]
            /\ last.result.scores = ZeroScores
            /\ Stored("Not Paying Attention", [num |-> 40, den |-> 1])
       ELSE /\ last.result.scores = acc.scores
            /\ last.result.weight = acc.totalWeight
            /\ last.result.dataPoints = Len(good)
            /\ last.result.confidence
                 = [num |-> acc.totalConfidence, den |-> Len(good)]

\* Two samples of confidence 0.2 are in the window and the decision is the
\* 0.4 default.
C14_Witness ==
  /\ last.op = "frame:ok"
  /\ Len(emotionHistory[last.id]) = 2
  /\ \A i \in 1..2 : emotionHistory[last.id][i].confidence = 20
  /\ last.result.confidence = [num |-> 40, den |-> 1]

\* The decision of the last frame:send was computed from samples.
Scored ==
  /\ last.op = "frame:ok"
  /\ Len(emotionHistory[last.id]) >= 2
  /\ Confident(emotionHistory[last.id]) # <<>>
\* The states whose score is the largest of the last decision.
Leaders ==
  {k \in DOMAIN ZeroScores :
     \A j \in DOMAIN ZeroScores : last.result.scores[j] <= last.result.scores[k]}
\* The largest normalized score of the last decision is at least 0.3.
AtThreshold ==
  \E k \in Leaders : last.result.scores[k] >= MIN_DOMINANCE * last.result.weight

\* C15: when samples survive the filters, the decision is a state with the
\* largest normalized score if that score is 0.3 or more, exactly 0.3
\* included, and 'Not Paying Attention', which then is not a state with the
\* largest score, if it is less.
C15_DominanceThreshold ==
  Scored =>
    IF AtThreshold
    THEN /\ \E k \in Leaders : last.result.engagement = engagementMap[k]
         /\ Stored(last.result.engagement, last.result.confidence)
    ELSE /\ last.result.engagement = "Not Paying Attention"
         /\ "notPaying" \notin Leaders
         /\ Stored("Not Paying Attention", last.result.confidence)

\* Three samples put the engaged score on exactly 0.3, the largest of the
\* four, and the decision is 'Engaged'.
C15_Witness ==
  /\ Scored
  /\ Leaders = {"engaged"}
  /\ last.result.scores.engaged = MIN_DOMINANCE * last.result.weight
  /\ last.result.engagement = "Engaged"

\* Three samples leave every score below 0.3.
C15_BelowThreshold == Scored /\ ~AtThreshold

\* The first state, in the order of States, among those of set S.
FirstOf(S) == States[CHOOSE i \in 1..Len(States) :
                       States[i] \in S /\ \A j \in 1..(i - 1) : States[j] \notin S]

\* C16 as claimed: when several states share the largest normalized score
\* and it is 0.3 or more, the decision is the first of them in the order
\* Engaged, Bored, Confused, Not Paying Attention.
C16_TieBreaking ==
  (Scored /\ AtThreshold /\ Cardinality(Leaders) >= 2) =>
    last.result.engagement = engagementMap[FirstOf(Leaders)]

SumOf(v) == v.engaged + v.bored + v.confused + v.notPaying

\* C17: the four normalized scores of a decision computed from samples sum
\* to 1 (the raw sums add up to 100 percent of the total weight, which is
\* positive), the scores of a default decision are all 0, and every weight
\* vector, the fallback for an unknown label included, sums to 1.
C17_ScoresSumToOne ==
  /\ last.op = "frame:ok" =>
       IF Scored
       THEN /\ last.result.weight > 0
            /\ SumOf(last.result.scores) = 100 * last.result.weight
       ELSE last.result.scores = ZeroScores
  /\ \A e \in DOMAIN emotionWeights : SumOf(emotionWeights[e]) = 100
  /\ \A s \in StudentIds : \A i \in 1..Len(emotionHistory[s]) :
       SumOf(WeightsOf(emotionHistory[s][i].emotion)) = 100

\* A decision is computed from three samples, one of an unknown label and
\* one that has decayed.
C17_Witness ==
  /\ Scored
  /\ Len(Confident(emotionHistory[last.id])) = 3
  /\ \E i \in 1..Len(emotionHistory[last.id]) :
       /\ emotionHistory[last.id][i].emotion \notin DOMAIN emotionWeights
       /\ emotionHistory[last.id][i].confidence >= CONFIDENCE_THRESHOLD
  /\ emotionHistory[last.id][1].timestamp < now

OpenTopics(topics) == {i \in 1..Len(topics) : topics[i].endTime = NoTime}
LastOpen(topics) ==
  CHOOSE i \in OpenTopics(topics) : \A j \in OpenTopics(topics) : j <= i

\* C18 as claimed: endTopic sets the end time of the most recently started
\* topic of the channel that is still open, leaves every other topic as it
\* was, and changes nothing only when no topic of the channel is open.
C18_EndTopicClosesLastOpen ==
  [][ last'.op = "topic:end" =>
        LET before == topicTracking[last'.ch]
            after == topicTracking'[last'.ch]
        IN IF OpenTopics(before) = {}
           THEN after = before
           ELSE after = [before EXCEPT ![LastOpen(before)].endTime = now] ]_vars

\* C19 as claimed: a channel has at most one topic whose end time is unset.
C19_SingleOpenTopic ==
  \A ch \in Channels : Cardinality(OpenTopics(topicTracking[ch])) <= 1

IsPrefix(a, b) == Len(a) <= Len(b) /\ SubSeq(b, 1, Len(a)) = a

\* C20: no request changes a channel's timeline except by adding records at
\* its end, so the timeline of an earlier state is a prefix of that of every
\* later state, and the timestamps of a timeline never decrease along it.
C20_AppendOnlyTimeline ==
  [][ \A ch \in Channels :
        /\ IsPrefix(analyticsData[ch], analyticsData'[ch])
        /\ \A i, j \in 1..Len(analyticsData'[ch]) :
             i < j => analyticsData'[ch][i].timestamp <= analyticsData'[ch][j].timestamp
     ]_vars

\* A channel's timeline holds two records of different times and a report
\* is read after the student has gone and a topic was started.
C20_Witness ==
  /\ last.op = "report"
  /\ Len(analyticsData[last.ch]) = 2
  /\ analyticsData[last.ch][1].timestamp < analyticsData[last.ch][2].timestamp
  /\ topicTracking[last.ch] # <<>>
  /\ students = <<>>
  /\ conn[1] = "closed"

QueryOps == {"students", "analytics", "topics", "report"}

\* C21: a report, raw-timeline, roster or topic-list request leaves
\* analyticsData, topicTracking, activeSessions and emotionHistory as they
\* were, for a channel with data and for a channel that is unknown, whose
\* answer is empty.
C21_QueriesReadOnly ==
  [][ last'.op \in QueryOps =>
        /\ UNCHANGED <<analyticsData, topicTracking, students, teachers,
                       emotionHistory>>
        /\ last'.ch \notin Channels =>
             /\ last'.body = [NoBody EXCEPT !.report = Report(<<>>, <<>>)]
                  \/ last'.body = NoBody ]_vars

\* A report is made of a channel that has a registered student with a
\* history, a record and a topic.
C21_Witness ==
  /\ last.op = "report"
  /\ last.ch = "X"
  /\ last.body.analytics = analyticsData["X"]
  /\ Len(last.body.report.topics) = 1
  /\ Len(last.body.report.overallStats) = 1
  /\ MapHas(students, "s1")
  /\ emotionHistory["s1"] # <<>>

\* The report of the last request, the timeline and the topics it was made
\* of (a report writes neither).
Reported == last.op = "report"
Timeline == analyticsData[last.ch]
TopicIndexes == 1..Len(topicTracking[last.ch])

\* Record a lies in the range of a topic: not before its start and, when the
\* topic is closed, not after its end.
Within(a, topic) ==
  /\ topic.startTime <= a.timestamp
  /\ topic.endTime # NoTime => a.timestamp <= topic.endTime

\* The positions of the timeline's records of student s, all of them and those
\* in a topic's range.
RecordsOf(s) == {i \in 1..Len(Timeline) : Timeline[i].studentId = s}
RecordsIn(s, topic) == {i \in RecordsOf(s) : Within(Timeline[i], topic)}
EntriesOf(stats, s) == {i \in 1..Len(stats) : stats[i].studentId = s}

\* C22 as claimed: a topic's studentStats of the report have an entry for a
\* student exactly if the student has a record in the topic's range, and
\* overallStats have one exactly if the student has a record in the channel.
C22_ReportPopulation ==
  Reported =>
    /\ \A k \in TopicIndexes : \A s \in StudentIds :
         EntriesOf(last.body.report.topics[k].studentStats, s) # {}
           <=> RecordsIn(s, topicTracking[last.ch][k]) # {}
    /\ \A s \in StudentIds :
         EntriesOf(last.body.report.overallStats, s) # {} <=> RecordsOf(s) # {}

\* The rounded mean of the engaged-percentages of the entries of stats.
MeanOf(stats) ==
  IF stats = <<>> THEN 0
  ELSE (2 * SumOfPercentages(stats) + Len(stats)) \div (2 * Len(stats))

\* C23 as claimed: a topic's classAverageEngagement is the mean of the
\* engaged-percentages of the students with a record in the topic's range.
C23_ClassAverage ==
  Reported =>
    \A k \in TopicIndexes :
      LET stat == last.body.report.topics[k]
      IN stat.classAverageEngagement
           = MeanOf(SelectSeq(stat.studentStats, LAMBDA e : e.totalDataPoints > 0))

\* C24: the report counts a record for a topic exactly if its timestamp is
\* not before the topic's start and, for a closed topic, not after its end,
\* in the topic's totals and in each student's.
C24_RangeInclusive ==
  Reported =>
    \A k \in TopicIndexes :
      LET stat == last.body.report.topics[k]
          topic == topicTracking[last.ch][k]
      IN /\ stat.totalDataPoints
              = Cardinality({i \in 1..Len(Timeline) : Within(Timeline[i], topic)})
         /\ \A i \in 1..Len(stat.studentStats) :
              stat.studentStats[i].totalDataPoints
                = Cardinality(RecordsIn(stat.studentStats[i].studentId, topic))

\* A closed topic with a record before its start, one exactly at its start,
\* one exactly at its later end and one after it: the report counts the two
\* in the middle.
C24_Witness ==
  /\ Reported
  /\ Len(topicTracking[last.ch]) = 1
  /\ LET topic == topicTracking[last.ch][1]
     IN /\ topic.startTime < topic.endTime
        /\ \E a, b, c, d \in 1..Len(Timeline) :
             /\ Timeline[a].timestamp < topic.startTime
             /\ Timeline[b].timestamp = topic.startTime
             /\ Timeline[c].timestamp = topic.endTime
             /\ Timeline[d].timestamp > topic.endTime
  /\ last.body.report.topics[1].totalDataPoints = 2

\* Percentage p (in tenths of a percent) is 100 * count / n rounded to one
\* decimal place.
IsRounded(p, count, n) ==
  /\ 2 * (1000 * count - n * p) <= n
  /\ 2 * (n * p - 1000 * count) <= n
CountOf(positions, e) ==
  Cardinality({i \in positions : Timeline[i].engagement = e})

\* C25: for every student with n >= 1 records in a topic's range the report's
\* four counts are the numbers of the student's records of each state there,
\* they sum to n, and each percentage is 100 * count / n rounded to one
\* decimal place; the same holds for the engaged-percentage of overallStats.
C25_ReportPercentages ==
  Reported =>
    /\ \A k \in TopicIndexes :
         LET stats == last.body.report.topics[k].studentStats
         IN \A i \in 1..Len(stats) :
              LET e == stats[i]
                  mine == RecordsIn(e.studentId, topicTracking[last.ch][k])
                  n == Cardinality(mine)
              IN n >= 1 =>
                   /\ e.totalDataPoints = n
                   /\ \A st \in EngagementStates :
                        e.engagementCounts[st] = CountOf(mine, st)
                   /\ e.engagementCounts["Engaged"] + e.engagementCounts["Bored"]
                        + e.engagementCounts["Confused"]
                        + e.engagementCounts["Not Paying Attention"] = n
                   /\ IsRounded(e.engagementPercentage, CountOf(mine, "Engaged"), n)
                   /\ IsRounded(e.boredPercentage, CountOf(mine, "Bored"), n)
                   /\ IsRounded(e.confusedPercentage, CountOf(mine, "Confused"), n)
                   /\ IsRounded(e.notPayingAttentionPercentage,
                                CountOf(mine, "Not Paying Attention"), n)
    /\ \A i \in 1..Len(last.body.report.overallStats) :
         LET e == last.body.report.overallStats[i]
             mine == RecordsOf(e.studentId)
         IN /\ e.totalDataPoints = Cardinality(mine)
            /\ Cardinality(mine) >= 1
            /\ IsRounded(e.engagementPercentage, CountOf(mine, "Engaged"),
                         Cardinality(mine))

\* A student has four records in a topic's range, three of them 'Engaged':
\* the report says 75.0 percent engaged, 25.0 not paying attention.
C25_Witness ==
  /\ Reported
  /\ Len(topicTracking[last.ch]) = 1
  /\ \E i \in 1..Len(last.body.report.topics[1].studentStats) :
       LET e == last.body.report.topics[1].studentStats[i]
       IN /\ e.totalDataPoints = 4
          /\ e.engagementCounts["Engaged"] = 3
          /\ e.engagementPercentage = 750
          /\ e.notPayingAttentionPercentage = 250

\* The handler that ran was given an event without a required field.
MissingField(step) ==
  \/ /\ step.op \in {"student:join", "teacher:join", "frame:send", "frame:ok",
                     "frame:fail"}
     /\ (step.id = Undefined \/ step.ch = Undefined)
  \/ step.op = "student:leave" /\ step.id = Undefined
HasError(out) == \E i \in 1..Len(out) : out[i].ev \in {"error", "emotion:error"}

\* C26 as claimed: a student:join, teacher:join or frame:send without id or
\* channelName and a student:leave without studentId leave activeSessions,
\* emotionHistory, analyticsData and the rooms as they were and are answered
\* with an error event to the sender (a frame:send when it completes, at the
\* latest).
C26_Validation ==
  [][ MissingField(last') =>
        /\ UNCHANGED <<students, teachers, emotionHistory, analyticsData, rooms>>
        /\ last'.op # "frame:send" => HasError(sent'[last'.sock]) ]_vars

OwnedBy(m, d) == SelectSeq(m, LAMBDA e : e.socketId = d)

\* The handler that ran was given an event without a field it reads or
\* without payload.
Malformed(step) ==
  \/ MissingField(step)
  \/ step.op = "student:leave" /\ step.ch = Undefined
  \/ step.op \in {"frame:noframe", "exit"}

\* C27 as claimed: an event that lacks a field or its payload leaves the
\* process running, and every connection other than the sender's open, in
\* its rooms and with its registry entries.
C27_FaultIsolation ==
  [][ Malformed(last') =>
        \A d \in Sockets \ {last'.sock} :
          /\ conn'[d] = conn[d]
          /\ rooms'[d] = rooms[d]
          /\ OwnedBy(students', d) = OwnedBy(students, d)
          /\ OwnedBy(teachers', d) = OwnedBy(teachers, d) ]_vars

HasEvent(out, ev, id) == \E i \in 1..Len(out) : out[i].ev = ev /\ out[i].id = id

\* C28 as claimed, for the handler that runs next: a connection that has just
\* been sent student:left for a student is not sent an emotion:update for
\* that student by the next handler (which, emitting one, is no join).
C28_NoUpdateAfterLeft ==
  [][ \A d \in Sockets, s \in StudentIds :
        HasEvent(sent[d], "student:left", s)
          => ~HasEvent(sent'[d], "emotion:update", s) ]_vars

\* C29 as claimed: a record is appended to a channel's timeline only for a
\* student who is registered in that channel with the sending connection as
\* its handle.
C29_TimelineMembership ==
  [][ \A ch \in DOMAIN analyticsData :
        Len(analyticsData'[ch]) > Len(analyticsData[ch]) =>
          LET record == analyticsData'[ch][Len(analyticsData'[ch])]
          IN /\ MapHas(students', record.studentId)
             /\ MapGet(students', record.studentId).channelName = ch
             /\ MapGet(students', record.studentId).socketId = last'.sock ]_vars

\* C30 as claimed: a sample the service reported with a confidence below
\* 0.35, or with none, adds nothing to the decision made on its arrival: the
\* scores, the weight, the count and the confidence are those of the earlier
\* confident samples, or the 0.4 default when there is none.
C30_ConfidenceFilter ==
  ( /\ last.op = "frame:ok"
    /\ last.resp.confidence < CONFIDENCE_THRESHOLD
    /\ Len(emotionHistory[last.id]) >= MIN_FRAMES_FOR_DECISION ) =>
    LET history == emotionHistory[last.id]
        earlier == Confident(SubSeq(history, 1, Len(history) - 1))
        acc == Accumulate(earlier, now)
    IN IF earlier = <<>>
       THEN /\ last.result.scores = ZeroScores
            /\ last.result.confidence = [num |-> 40, den |-> 1]
       ELSE /\ last.result.scores = acc.scores
            /\ last.result.weight = acc.totalWeight
            /\ last.result.dataPoints = Len(earlier)
            /\ last.result.confidence
                 = [num |-> acc.totalConfidence, den |-> Len(earlier)]

\* C31: a disconnect removes exactly the student and teacher entries whose
\* registered socketId is the closed connection, with the histories of those
\* students; an identity that re-joined on another connection keeps its
\* entry and its history, and no student:left is emitted for it.
C31_StaleDisconnect ==
  [][ last'.op = "disconnect" =>
        /\ MapKeys(students') \subseteq MapKeys(students)
        /\ MapKeys(teachers') \subseteq MapKeys(teachers)
        /\ \A s \in MapKeys(students) :
             IF MapGet(students, s).socketId = last'.sock
             THEN ~MapHas(students', s) /\ emotionHistory'[s] = <<>>
             ELSE /\ MapHas(students', s)
                  /\ MapGet(students', s) = MapGet(students, s)
                  /\ emotionHistory'[s] = emotionHistory[s]
                  /\ \A d \in Sockets : ~HasEvent(sent'[d], "student:left", s)
        /\ \A t \in MapKeys(teachers) :
             IF MapGet(teachers, t).socketId = last'.sock
             THEN ~MapHas(teachers', t)
             ELSE MapHas(teachers', t) /\ MapGet(teachers', t) = MapGet(teachers, t)
     ]_vars

\* Connection 1 has closed after student s1, who has a history, re-joined on
\* connection 2 (the only way an entry comes to name connection 2): the entry
\* and the history are there, and the teacher on connection 2 was sent
\* student:left for s2, who had not re-joined, and for nobody else.
C31_Witness ==
  /\ last.op = "disconnect"
  /\ last.sock = 1
  /\ RegisteredOn(students, "s1", 2)
  /\ emotionHistory["s1"] # <<>>
  /\ ~MapHas(students, "s2")
  /\ RegisteredOn(teachers, "t2", 2)
  /\ sent[2] = <<Event("student:left", "s2", "X")>>

OtherStates == {"engaged", "bored", "confused"}
\* The largest notPaying weight of the table, 0.20.
MaxNotPaying == emotionWeights.neutral.notPaying

\* C32: in every weight vector, and so in the normalized scores of every
\* decision computed from samples, notPaying is at most 0.20 and strictly
\* below one of the other three; a decision whose largest score is 0.3 or
\* more is Engaged, Bored or Confused, and 'Not Paying Attention' comes only
\* from a default or from a largest score below 0.3.
C32_NotPayingNeverDominant ==
  /\ \A e \in DOMAIN emotionWeights :
       /\ emotionWeights[e].notPaying <= MaxNotPaying
       /\ \E k \in OtherStates : emotionWeights[e].notPaying < emotionWeights[e][k]
  /\ MaxNotPaying = 20
  /\ Scored =>
       /\ last.result.weight > 0
       /\ last.result.scores.notPaying <= MaxNotPaying * last.result.weight
       /\ \E k \in OtherStates :
            last.result.scores.notPaying < last.result.scores[k]
       /\ "notPaying" \notin Leaders
       /\ AtThreshold => last.result.engagement \in {"Engaged", "Bored", "Confused"}
  /\ (last.op = "frame:ok" /\ last.result.engagement = "Not Paying Attention")
       => ~Scored \/ ~AtThreshold

\* Three confident samples, all neutral: the notPaying score is on its bound
\* of 0.20 and the decision is 'Engaged'.
C32_Witness ==
  /\ Scored
  /\ Len(emotionHistory[last.id]) = 3
  /\ last.result.scores.notPaying = MaxNotPaying * last.result.weight
  /\ last.result.engagement = "Engaged"

\* Samples of mixed labels leave every score below 0.3: the decision is
\* 'Not Paying Attention' though notPaying is not the largest score.
C32_BelowThreshold ==
  /\ Scored
  /\ ~AtThreshold
  /\ last.result.engagement = "Not Paying Attention"
====
